---- MODULE Spec2Model ----
(***************************************************************************)
(* The Worker side of the gaggle coordination protocol (src/src/worker.rs): *)
(* worker_main, push_metrics_to_manager and the two pipe handlers.          *)
(* The Manager is the environment: every message it sends is drawn from     *)
(* ManagerMsgs, every socket call may fail.                                  *)
(***************************************************************************)
EXTENDS Integers, Sequences, FiniteSets, TLC

\* ------------------------------------------------------------------ bounds
MaxInit == 2          \* longest assignment (sequence of initializers)
MaxHeartbeats == 3    \* heartbeat pushes of the go-ahead loop
MaxPushes == 2        \* pushes made by the Attack Engine during the run

\* --------------------------------------------------------- program constants
MaxRetries == 5
GraceMs == 100
RetryMs == 500
HeartbeatSleepMs == 1000
PanicStatus == 101          \* a Rust panic on the main thread
AbortStatus == 134          \* a panic inside the pipe callback aborts the process

\* ------------------------------------------------------------- input domains
Hashes == {43981, 51966}
WorkerIds == {0, 7, 9}
RunTimes == {30, 60}

\* SwanlingConfiguration, reduced to the fields worker_main touches plus two
\* others (users, host) standing for "every other field".
MkConfig(tag, throttle, users) ==
  [ request_log |-> tag, request_format |-> tag, task_log |-> tag,
    task_format |-> tag, error_log |-> tag, error_format |-> tag,
    debug_log |-> tag, debug_format |-> tag, throttle_requests |-> throttle,
    users |-> users, host |-> tag, manager |-> FALSE, worker |-> FALSE ]

DefaultConfig == MkConfig("default", 0, 0)
LocalConfig == [MkConfig("local", 5, 1) EXCEPT !.worker = TRUE]
ManagerConfigs ==
  { [MkConfig("mgrA", 10, 100) EXCEPT !.manager = TRUE],
    [MkConfig("mgrB", 20, 200) EXCEPT !.manager = TRUE] }

\* SwanlingUserInitializer as worker_main reads it: every combination of
\* Worker id, run duration and shared config, plus one whose URL does not parse.
Initializers ==
  [ worker_id : WorkerIds, run_time : RunTimes, config : ManagerConfigs,
    base_url : {"http://ok/"}, task_sets_index : {0} ]
  \cup [ worker_id : {7}, run_time : {30}, config : {CHOOSE c \in ManagerConfigs : TRUE},
         base_url : {"not a url"}, task_sets_index : {0} ]

RECURSIVE SeqsUpTo(_, _)
SeqsUpTo(S, n) ==
  IF n = 0 THEN { <<>> }
  ELSE LET shorter == SeqsUpTo(S, n - 1)
       IN  shorter \cup { Append(s, x) : s \in { t \in shorter : Len(t) = n - 1 }, x \in S }

\* SwanlingUserCommand: the closed enumeration the Manager sends.
Commands == {"Wait", "Run", "Exit"}

\* A CBOR message from the Manager, by its top-level shape: an array (typed
\* says whether each element matches the UserInitializer struct), a text
\* string (a unit enum variant is encoded as its name) or something else.
MgrMsg(major, typed, items, text) ==
  [ major |-> major, typed |-> typed, items |-> items, text |-> text ]

AssignmentMsgs == { MgrMsg("array", TRUE, s, "") : s \in SeqsUpTo(Initializers, MaxInit) }
CommandMsgs == { MgrMsg("text", FALSE, <<>>, c) : c \in Commands }
JunkMsgs ==
  { MgrMsg("text", FALSE, <<>>, "Bogus"),
    MgrMsg("uint", FALSE, <<>>, ""),
    MgrMsg("array", FALSE, <<[worker_id |-> 7, run_time |-> 30,
                              config |-> CHOOSE c \in ManagerConfigs : TRUE,
                              base_url |-> "http://ok/", task_sets_index |-> 0]>>, "") }
ManagerMsgs == AssignmentMsgs \cup CommandMsgs \cup JunkMsgs

\* What the Manager may answer where the Worker decodes a command only.
\* DecodeCommand reads the top-level shape alone, so one assignment of each
\* length up to 1 stands for all of them there.
ReplyMsgs ==
  CommandMsgs \cup JunkMsgs \cup { m \in AssignmentMsgs : Len(m.items) <= 1 }

\* GaggleMetrics values and the batches the Attack Engine pushes.
WorkerInit(h) == [variant |-> "WorkerInit", val |-> h]
EngineBatches ==
  { << [variant |-> "Requests", val |-> 1], [variant |-> "Tasks", val |-> 1] >>,
    << [variant |-> "Errors", val |-> 1] >> }

\* serde_cbor::to_writer(&mut message, &metrics): a Vec is written as an array.
Encode(metrics) == [major |-> "array", items |-> metrics]
NoMsg == [major |-> "none", items |-> <<>>]

\* ------------------------------------------------------------------ decoding
Ok(v) == [ok |-> TRUE, val |-> v]
Err == [ok |-> FALSE, val |-> <<>>]

\* serde_cbor::from_reader::<Vec<SwanlingUserInitializer>>: an array whose
\* every element is an initializer map; the empty array has no element to fail.
DecodeInitializers(m) ==
  IF m.major = "array" /\ (m.typed \/ m.items = <<>>) THEN Ok(m.items) ELSE Err

\* serde_cbor::from_reader::<SwanlingUserCommand>: a text string naming a variant.
DecodeCommand(m) ==
  IF m.major = "text" /\ m.text \in Commands THEN Ok(m.text) ELSE Err

\* Url::parse(&initializer.base_url).unwrap()
UrlParses(u) == u = "http://ok/"

VARIABLES
  pc,             \* position of worker_main
  ppc,            \* position inside push_metrics_to_manager: "idle" or "recv"
  status,         \* <<exit status>> once the process has ended, <<>> while it runs
  reason,         \* diagnostic of the abort, "" while running
  handler,        \* pipe_notify callback in force
  retries,        \* worker_main's retries
  dials,          \* number of manager.dial calls made
  slept,          \* milliseconds spent in thread::sleep
  hash,           \* swanling_attack.metrics.hash
  nSend,          \* successful try_send calls
  nRecv,          \* recv calls
  lastSent,       \* last message put on the socket
  regSent,        \* the registration message
  hbSent,         \* the set of heartbeat messages sent by the go-ahead loop
  assignDecoded,  \* how the post-registration message decoded
  decodeLog,      \* decodes attempted on the post-registration message, in order
  firstInit,      \* <<initializers[0]>> of the decoded assignment, else <<>>
  assignedN,      \* length of the decoded assignment, -1 before
  initializers,   \* initializers the for loop has not consumed yet
  worker_id,      \* worker_main's local worker_id
  WORKER_ID,      \* the process-wide atomic
  widWrites,      \* number of WORKER_ID.store calls
  weighted_users,
  config,
  run_time,
  heartbeats,     \* go-ahead loop iterations started
  hbRecvs,        \* receives made by the go-ahead loop
  lastCmd,        \* last command matched by the go-ahead loop
  exitAt,         \* where an Exit command was decoded: none/assignment/goahead/push
  pushRet,        \* return value of the last completed push ("none" before)
  pushCalls,      \* calls of push_metrics_to_manager
  waiting,        \* callers inside push that wait for their reply
  lastReq,        \* <<caller>> of the last send of the pushes in progress, else <<>>
  misdelivered,   \* a reply was consumed by a push other than the one it answers
  peerGone,       \* a RemovePost pipe event has fired
  peerLog,        \* how the last pipe event was handled
  mgrSilent,      \* the Manager has stopped answering: recv blocks
  trace,          \* lifecycle states entered, in order
  attack,         \* worker_swanling_attack handed to start_attack, <<>> before
  canceled,       \* the Attack Engine saw push return false
  pushes          \* pushes made by the Attack Engine

vars == << pc, ppc, status, reason, handler, retries, dials, slept, hash, nSend,
           nRecv, lastSent, regSent, hbSent, assignDecoded, decodeLog, firstInit,
           assignedN, initializers, worker_id, WORKER_ID, widWrites,
           weighted_users, config, run_time, heartbeats, hbRecvs, lastCmd, exitAt,
           pushRet, pushCalls, waiting, lastReq, misdelivered, peerGone, peerLog, mgrSilent, trace, attack, canceled, pushes >>

connVars == << retries, dials, slept >>
sockVars == << nSend, nRecv, lastSent, regSent, hbSent >>
assignVars == << assignDecoded, decodeLog, firstInit, assignedN, initializers >>
userVars == << worker_id, WORKER_ID, widWrites, weighted_users, config, run_time >>
loopVars == << heartbeats, hbRecvs, lastCmd >>
pushVars == << ppc, pushRet, pushCalls, waiting, lastReq, misdelivered >>
peerVars == << peerGone, peerLog, mgrSilent >>
engineVars == << attack, canceled, pushes >>
\* ------------------------------------------------------------ lifecycle trace
\* The lifecycle state (spec 4.3 names) each position of worker_main belongs to.
Phase(p) ==
  CASE p = "Start" -> "Connecting"
    [] p = "Connecting" -> "Connecting"
    [] p = "Registering" -> "Registering"
    [] p = "AwaitingAssignment" -> "AwaitingAssignment"
    [] p = "BuildingUsers" -> "BuildingUsers"
    [] p \in {"GoAheadSend", "GoAheadRecv", "GoAheadExit"} -> "AwaitingGoAhead"
    [] p = "StartingAttack" -> "StartingAttack"
    [] p = "Running" -> "Running"
    [] OTHER -> p

Goto(p) ==
  /\ pc' = p
  /\ trace' = IF Phase(p) # Phase(pc) THEN Append(trace, Phase(p)) ELSE trace

\* panic!/expect on the main thread: the process dies with a non-zero status.
Panic_swallow(why) ==
  /\ UNCHANGED << pc, trace, status >>
  /\ reason' = why
Panic(why) ==
  /\ Goto("Panicked")
  /\ status' = << PanicStatus >>
  /\ reason' = why

Alive == pc \notin {"Panicked", "Exited", "Completed"}

Init ==
  /\ pc = "Start"
  /\ ppc = "idle"
  /\ status = <<>>
  /\ reason = ""
  /\ handler = "none"
  /\ retries = 0
  /\ dials = 0
  /\ slept = 0
  /\ hash \in Hashes
  /\ nSend = 0
  /\ nRecv = 0
  /\ lastSent = NoMsg
  /\ regSent = NoMsg
  /\ hbSent = {}
  /\ assignDecoded = "none"
  /\ decodeLog = <<>>
  /\ firstInit = <<>>
  /\ assignedN = -1
  /\ initializers = <<>>
  /\ worker_id = 0
  /\ WORKER_ID = 0
  /\ widWrites = 0
  /\ weighted_users = <<>>
  /\ config = DefaultConfig
  /\ run_time = 0
  /\ heartbeats = 0
  /\ hbRecvs = 0
  /\ lastCmd = "none"
  /\ exitAt = "none"
  /\ pushRet = "none"
  /\ pushCalls = 0
  /\ waiting = {}
  /\ lastReq = <<>>
  /\ misdelivered = FALSE
  /\ peerGone = FALSE
  /\ peerLog = "none"
  /\ mgrSilent = FALSE
  /\ trace = << "Connecting" >>
  /\ attack = <<>>
  /\ canceled = FALSE
  /\ pushes = 0

\* ---------------------------------------------------------------- Connecting
\* worker.rs 61-71: create the socket, install pipe_closed, sleep 100 ms.
Setup ==
  /\ pc = "Start"
  /\ \E socket_ok \in BOOLEAN, notify_ok \in BOOLEAN :
       IF ~socket_ok THEN
         /\ Panic("failed to create socket")
         /\ UNCHANGED << handler, slept >>
       ELSE IF ~notify_ok THEN
         /\ Panic("failed to set up pipe handler")
         /\ UNCHANGED << handler, slept >>
       ELSE
         /\ handler' = "pipe_closed"
         /\ slept' = slept + GraceMs
         /\ Goto("Connecting")
         /\ UNCHANGED << status, reason >>
  /\ UNCHANGED << retries, dials, hash, sockVars, assignVars, userVars, loopVars,
                  exitAt, pushVars, peerVars, engineVars >>

\* worker.rs 78: the retry budget is spent.
RetryLimitReached_gt(r) == r > MaxRetries
RetryLimitReached(r) == r >= MaxRetries

\* worker.rs 73-91: one iteration of the connect loop.
Dial ==
  /\ pc = "Connecting"
  /\ dials' = dials + 1
  /\ \E dial_ok \in BOOLEAN :
       IF dial_ok THEN
         /\ Goto("Registering")
         /\ UNCHANGED << status, reason, retries, slept >>
       ELSE IF RetryLimitReached(retries) THEN
         /\ Panic("failed to communicate with manager")
         /\ UNCHANGED << retries, slept >>
       ELSE
         /\ slept' = slept + RetryMs
         /\ retries' = retries + 1
         /\ UNCHANGED << pc, trace, status, reason >>
  /\ UNCHANGED << handler, hash, sockVars, assignVars, userVars, loopVars, exitAt,
                  pushVars, peerVars, engineVars >>

\* ------------------------------------------------------------ the Req0 socket
\* manager.recv(): with a request outstanding it yields the Manager's reply or
\* an error; with none outstanding a Req0 socket refuses the call.
RecvOutcomes(msgs) ==
  IF nSend > nRecv THEN { Err } \cup { Ok(m) : m \in msgs } ELSE { Err }

\* ----------------------------------------------------- push_metrics_to_manager
\* worker.rs 295-305: the value push returns for a decoded reply.
PushReturn_alwaysTrue(command) == "true"
PushReturn(command) == IF command = "Exit" THEN "false" ELSE "true"

\* worker.rs 295-302: the pipe handler in force after a decoded reply.
HandlerAfterReply_never(command, h) == h
HandlerAfterReply_always(command, h) == "pipe_closed_during_shutdown"
HandlerAfterReply(command, h) ==
  IF command = "Exit" THEN "pipe_closed_during_shutdown" ELSE h

\* Where the caller of push continues once push has returned.
AfterPush_skipAssignment(p) ==
  CASE p = "Registering" -> "GoAheadSend"
    [] p = "GoAheadSend" -> "GoAheadRecv"
    [] OTHER -> p
AfterPush(p) ==
  CASE p = "Registering" -> "AwaitingAssignment"
    [] p = "GoAheadSend" -> "GoAheadRecv"
    [] OTHER -> p

\* The caller of push when it is worker_main's own thread; the simulated users
\* of the running attack are the callers <<1>> .. <<Len(weighted_users)>>.
MainThread == <<>>

\* worker.rs 268-284 and 305: serialize, try_send, and return true when no
\* reply is wanted.  A caller is inside push at most once at a time.
PushSend(caller, metrics, get_response) ==
  /\ caller \notin waiting
  /\ pushCalls' = pushCalls + 1
  /\ UNCHANGED misdelivered
  /\ \E send_ok \in BOOLEAN :
       IF ~send_ok THEN
         /\ Panic("communication failure")
         /\ UNCHANGED << nSend, lastSent, ppc, pushRet, waiting, lastReq >>
       ELSE
         /\ nSend' = nSend + 1
         /\ lastSent' = Encode(metrics)
         /\ lastReq' = IF get_response \/ waiting # {} THEN << caller >> ELSE <<>>
         /\ IF get_response THEN
              /\ ppc' = "recv"
              /\ waiting' = waiting \cup { caller }
              /\ UNCHANGED << pc, trace, status, reason, pushRet >>
            ELSE
              /\ ppc' = IF waiting = {} THEN "idle" ELSE "recv"
              /\ UNCHANGED waiting
              /\ pushRet' = "true"
              /\ Goto(AfterPush(pc))
              /\ UNCHANGED << status, reason >>

\* worker.rs 284-305: wait for the reply, decode it, swap the pipe handler on
\* Exit.  The Attack Engine reacts to a false return by cancelling the run.
PushRecv ==
  /\ ppc = "recv"
  /\ Alive
  /\ ~mgrSilent
  /\ nRecv' = nRecv + 1
  /\ \E caller \in waiting, r \in RecvOutcomes(ReplyMsgs), notify_ok \in BOOLEAN :
       LET command == DecodeCommand(r.val) IN
       /\ misdelivered' = (misdelivered \/ (r.ok /\ lastReq # << caller >>))
       /\ IF ~r.ok THEN
            /\ Panic("error receiving manager message")
            /\ UNCHANGED << handler, exitAt, pushRet, canceled, ppc, waiting, lastReq >>
          ELSE IF ~command.ok THEN
            /\ Panic("invalid message")
            /\ UNCHANGED << handler, exitAt, pushRet, canceled, ppc, waiting, lastReq >>
          ELSE IF HandlerAfterReply(command.val, handler) # handler /\ ~notify_ok THEN
            /\ Panic("failed to set up new pipe handler")
            /\ exitAt' = "push"
            /\ UNCHANGED << handler, pushRet, canceled, ppc, waiting, lastReq >>
          ELSE
            /\ handler' = HandlerAfterReply(command.val, handler)
            /\ exitAt' = IF command.val = "Exit" THEN "push" ELSE exitAt
            /\ pushRet' = PushReturn(command.val)
            /\ canceled' = (canceled \/ (pc = "Running" /\ pushRet' = "false"))
            /\ waiting' = waiting \ { caller }
            /\ lastReq' = IF waiting' = {} THEN <<>> ELSE lastReq
            /\ ppc' = IF waiting' = {} THEN "idle" ELSE "recv"
            /\ Goto(AfterPush(pc))
            /\ UNCHANGED << status, reason >>
  /\ UNCHANGED << connVars, hash, nSend, lastSent, regSent, hbSent, assignVars,
                  userVars, loopVars, pushCalls, peerVars, attack, pushes >>

\* ---------------------------------------------------------------- Registering
\* worker.rs 96-97: the registration push.
RegistrationMetrics(h) == << WorkerInit(h) >>
RegisterGetResponse_true == TRUE
RegisterGetResponse == FALSE

\* worker.rs 93-98
Register ==
  /\ pc = "Registering"
  /\ PushSend(MainThread, RegistrationMetrics(hash), RegisterGetResponse)
  /\ regSent' = IF nSend' > nSend THEN lastSent' ELSE regSent
  /\ UNCHANGED << handler, connVars, hash, nRecv, hbSent, assignVars, userVars,
                  loopVars, exitAt, peerVars, engineVars >>

\* --------------------------------------------------------- AwaitingAssignment
\* worker.rs 112-130: the two-step speculative decode.  log lists the decodes
\* attempted, outcome what the message turned out to be.
DecodeAssignment_commandFirst(m) ==
  LET c == DecodeCommand(m)
      i == DecodeInitializers(m)
  IN  IF c.ok THEN [ log |-> << "command" >>, val |-> <<>>,
                     outcome |-> IF c.val = "Exit" THEN "Exit" ELSE "command" ]
      ELSE IF i.ok THEN [ log |-> << "command", "initializers" >>,
                          outcome |-> "initializers", val |-> i.val ]
      ELSE [ log |-> << "command", "initializers" >>, outcome |-> "invalid",
             val |-> <<>> ]
DecodeAssignment(m) ==
  LET i == DecodeInitializers(m)
      c == DecodeCommand(m)
  IN  IF i.ok THEN [ log |-> << "initializers" >>, outcome |-> "initializers",
                     val |-> i.val ]
      ELSE IF ~c.ok THEN [ log |-> << "initializers", "command" >>,
                            outcome |-> "invalid", val |-> <<>> ]
      ELSE [ log |-> << "initializers", "command" >>, val |-> <<>>,
             outcome |-> IF c.val = "Exit" THEN "Exit" ELSE "command" ]

\* worker.rs 112-130: where each outcome of the decode leads.
AssignmentNext_exitZero(outcome) ==
  CASE outcome = "initializers" -> "BuildingUsers"
    [] outcome = "Exit" -> "Exited"
    [] OTHER -> "Panicked"
AssignmentNext_commandWaits(outcome) ==
  CASE outcome \in {"initializers", "command"} -> "BuildingUsers"
    [] OTHER -> "Panicked"
AssignmentNext(outcome) ==
  CASE outcome = "initializers" -> "BuildingUsers"
    [] OTHER -> "Panicked"

AssignmentPanic(outcome) ==
  CASE outcome = "Exit" -> "unexpected SwanlingUserCommand::Exit from manager during startup"
    [] outcome = "command" -> "unknown command from manager"
    [] OTHER -> "invalid message received"

\* worker.rs 100-130
AwaitAssignment ==
  /\ pc = "AwaitingAssignment"
  /\ ppc = "idle"
  /\ ~mgrSilent
  /\ nRecv' = nRecv + 1
  /\ \E r \in RecvOutcomes(ManagerMsgs) :
       IF ~r.ok THEN
         /\ Panic("error receiving manager message")
         /\ UNCHANGED << assignVars, exitAt >>
       ELSE
         LET d == DecodeAssignment(r.val)
             next == AssignmentNext(d.outcome)
         IN  /\ decodeLog' = d.log
             /\ assignDecoded' = d.outcome
             /\ exitAt' = IF d.outcome = "Exit" THEN "assignment" ELSE exitAt
             /\ initializers' = d.val
             /\ firstInit' = IF d.outcome = "initializers" /\ d.val # <<>>
                             THEN << Head(d.val) >> ELSE <<>>
             /\ assignedN' = IF d.outcome = "initializers" THEN Len(d.val) ELSE assignedN
             /\ IF next = "Panicked" THEN Panic(AssignmentPanic(d.outcome))
                ELSE /\ Goto(next)
                     /\ status' = IF next = "Exited" THEN << 0 >> ELSE status
                     /\ UNCHANGED reason
  /\ UNCHANGED << handler, connVars, hash, nSend, lastSent, regSent, hbSent,
                  userVars, loopVars, pushVars, peerVars, engineVars >>

\* -------------------------------------------------------------- BuildingUsers
\* worker.rs 136-138: the local worker_id after one more initializer.
FirstWorkerId_last(wid, initializer) == initializer.worker_id
FirstWorkerId(wid, initializer) == IF wid = 0 THEN initializer.worker_id ELSE wid

\* worker.rs 152: whether this initializer's config and run_time are copied.
CopiesShared_always(users) == TRUE
CopiesShared(users) == users = <<>>

\* SwanlingUser::new(task_sets_index, base_url, min_wait, max_wait, &config, hash)
NewUser(initializer, h) ==
  [ task_sets_index |-> initializer.task_sets_index, load_test_hash |-> h ]

\* worker.rs 135-157: one iteration of the for loop.
BuildUser ==
  /\ pc = "BuildingUsers"
  /\ initializers # <<>>
  /\ LET initializer == Head(initializers) IN
     /\ worker_id' = FirstWorkerId(worker_id, initializer)
     /\ \E user_ok \in BOOLEAN :
          IF ~UrlParses(initializer.base_url) THEN
            /\ Panic("called Result::unwrap() on an Err value")
            /\ UNCHANGED << initializers, weighted_users, config, run_time >>
          ELSE IF ~user_ok THEN
            /\ Panic("failed to create socket")
            /\ UNCHANGED << initializers, weighted_users, config, run_time >>
          ELSE
            /\ config' = IF CopiesShared(weighted_users) THEN initializer.config ELSE config
            /\ run_time' = IF CopiesShared(weighted_users) THEN initializer.run_time
                           ELSE run_time
            /\ weighted_users' = Append(weighted_users, NewUser(initializer, hash))
            /\ initializers' = Tail(initializers)
            /\ UNCHANGED << pc, trace, status, reason >>
  /\ UNCHANGED << handler, connVars, hash, sockVars, assignDecoded, decodeLog,
                  firstInit, assignedN, WORKER_ID, widWrites, loopVars, exitAt,
                  pushVars, peerVars, engineVars >>

\* worker.rs 158-165: publish the Worker id, enter the go-ahead loop.
BuildDone_rejectEmpty ==
  /\ pc = "BuildingUsers"
  /\ initializers = <<>>
  /\ IF weighted_users = <<>> THEN
       /\ Panic("no users assigned")
       /\ UNCHANGED << WORKER_ID, widWrites >>
     ELSE
       /\ WORKER_ID' = worker_id
       /\ widWrites' = widWrites + 1
       /\ Goto("GoAheadSend")
       /\ UNCHANGED << status, reason >>
  /\ UNCHANGED << handler, connVars, hash, sockVars, assignVars,
                  worker_id, weighted_users, config, run_time, loopVars, exitAt,
                  pushVars, peerVars, engineVars >>
BuildDone ==
  /\ pc = "BuildingUsers"
  /\ initializers = <<>>
  /\ WORKER_ID' = worker_id
  /\ widWrites' = widWrites + 1
  /\ Goto("GoAheadSend")
  /\ UNCHANGED << status, reason, handler, connVars, hash, sockVars, assignVars,
                  worker_id, weighted_users, config, run_time, loopVars, exitAt,
                  pushVars, peerVars, engineVars >>

\* ------------------------------------------------------------ AwaitingGoAhead
\* worker.rs 172-173: the heartbeat push.
HeartbeatMetrics_workerId(h) == << WorkerInit(WORKER_ID) >>
HeartbeatMetrics(h) == << WorkerInit(h) >>
HeartbeatGetResponse_true == TRUE
HeartbeatGetResponse == FALSE

\* worker.rs 168-174: the head of the loop.
Heartbeat ==
  /\ pc = "GoAheadSend"
  /\ heartbeats < MaxHeartbeats
  /\ heartbeats' = heartbeats + 1
  /\ PushSend(MainThread, HeartbeatMetrics(hash), HeartbeatGetResponse)
  /\ hbSent' = IF nSend' > nSend THEN hbSent \cup { lastSent' } ELSE hbSent
  /\ UNCHANGED << handler, connVars, hash, nRecv, regSent, assignVars, userVars,
                  hbRecvs, lastCmd, exitAt, peerVars, engineVars >>

\* worker.rs 184-205: the arm taken for a decoded command.
GoAheadNext_waitRuns(command) ==
  CASE command = "Exit" -> "GoAheadExit"
    [] OTHER -> "StartingAttack"
GoAheadNext_exitWaits(command) ==
  CASE command = "Run" -> "StartingAttack"
    [] OTHER -> "GoAheadSend"
GoAheadNext_runWaits(command) ==
  CASE command = "Exit" -> "GoAheadExit"
    [] OTHER -> "GoAheadSend"
GoAheadNext(command) ==
  CASE command = "Run" -> "StartingAttack"
    [] command = "Exit" -> "GoAheadExit"
    [] OTHER -> "GoAheadSend"

\* worker.rs 175-205: receive the reply, decode it, match it.
GoAheadRecv ==
  /\ pc = "GoAheadRecv"
  /\ ppc = "idle"
  /\ ~mgrSilent
  /\ nRecv' = nRecv + 1
  /\ hbRecvs' = hbRecvs + 1
  /\ \E r \in RecvOutcomes(ReplyMsgs) :
       LET command == DecodeCommand(r.val) IN
       IF ~r.ok THEN
         /\ Panic("error receiving manager message")
         /\ UNCHANGED << lastCmd, exitAt, slept >>
       ELSE IF ~command.ok THEN
         /\ Panic("invalid message received")
         /\ UNCHANGED << lastCmd, exitAt, slept >>
       ELSE
         /\ lastCmd' = command.val
         /\ exitAt' = IF command.val = "Exit" THEN "goahead" ELSE exitAt
         /\ Goto(GoAheadNext(command.val))
         /\ slept' = IF GoAheadNext(command.val) = "GoAheadSend"
                     THEN slept + HeartbeatSleepMs ELSE slept
         /\ UNCHANGED << status, reason >>
  /\ UNCHANGED << handler, retries, dials, hash, nSend, lastSent, regSent, hbSent,
                  assignVars, userVars, heartbeats, pushVars, peerVars, engineVars >>

\* worker.rs 189-193: warn!, then std::process::exit(0).
ProcessExit ==
  /\ pc = "GoAheadExit"
  /\ Goto("Exited")
  /\ status' = << 0 >>
  /\ UNCHANGED << reason, handler, connVars, hash, sockVars, assignVars, userVars,
                  loopVars, exitAt, pushVars, peerVars, engineVars >>

\* ------------------------------------------------------------- StartingAttack
\* worker.rs 213-253: the configuration of worker_swanling_attack.
MergeConfiguration_managerThrottle(shared, local) ==
  [ shared EXCEPT !.manager = FALSE, !.worker = TRUE,
                  !.request_log = local.request_log,
                  !.request_format = local.request_format,
                  !.task_log = local.task_log,
                  !.task_format = local.task_format,
                  !.error_log = local.error_log,
                  !.error_format = local.error_format,
                  !.debug_log = local.debug_log,
                  !.debug_format = local.debug_format ]
MergeConfiguration(shared, local) ==
  [ shared EXCEPT !.manager = FALSE, !.worker = TRUE,
                  !.request_log = local.request_log,
                  !.request_format = local.request_format,
                  !.task_log = local.task_log,
                  !.task_format = local.task_format,
                  !.error_log = local.error_log,
                  !.error_format = local.error_format,
                  !.debug_log = local.debug_log,
                  !.debug_format = local.debug_format,
                  !.throttle_requests = local.throttle_requests ]

\* worker.rs 208-256: build worker_swanling_attack and call start_attack.
StartAttack ==
  /\ pc = "StartingAttack"
  /\ \E init_ok \in BOOLEAN :
       IF ~init_ok THEN
         /\ Panic("failed to launch SwanlingAttack")
         /\ UNCHANGED attack
       ELSE
         /\ attack' = << [ configuration |-> MergeConfiguration(config, LocalConfig),
                           run_time |-> run_time,
                           weighted_users |-> weighted_users,
                           attack_mode |-> "Worker" ] >>
         /\ Goto("Running")
         /\ UNCHANGED << status, reason >>
  /\ UNCHANGED << handler, connVars, hash, sockVars, assignVars, userVars,
                  loopVars, exitAt, pushVars, peerVars, canceled, pushes >>

\* -------------------------------------------------------------- Attack Engine
\* start_attack is not in the sources at hand: it is modelled from the
\* specification (4.3, 4.4, P6).  It pushes batches with or without a reply
\* requested, stops pushing once a push has returned false, and returns.
Callers == { MainThread } \cup { << i >> : i \in 1..Len(weighted_users) }

\* The mutual exclusion the engine keeps around push (spec 5): a caller
\* enters push only when no other push is between its send and its return.
PushLockFree_none == TRUE
PushLockFree == waiting = {}

EnginePush ==
  /\ pc = "Running"
  /\ ~canceled
  /\ pushes < MaxPushes
  /\ PushLockFree
  /\ pushes' = pushes + 1
  /\ \E caller \in Callers, metrics \in EngineBatches, want_reply \in BOOLEAN :
       PushSend(caller, metrics, want_reply)
  /\ UNCHANGED << handler, connVars, hash, nRecv, regSent, hbSent, assignVars,
                  userVars, loopVars, exitAt, peerVars, attack, canceled >>

\* worker.rs 255-259: start_attack returns the finished attack, or an error.
EngineComplete ==
  /\ pc = "Running"
  /\ ppc = "idle"
  /\ \E attack_ok \in BOOLEAN :
       IF attack_ok THEN /\ Goto("Completed")
                         /\ UNCHANGED << status, reason >>
       ELSE Panic("failed to launch SwanlingAttack")
  /\ UNCHANGED << handler, connVars, hash, sockVars, assignVars, userVars,
                  loopVars, exitAt, pushVars, peerVars, engineVars >>

\* ------------------------------------------------------------- pipe callbacks
\* worker.rs 30-41: what the handler in force does with a RemovePost event.
PipeEventOutcome_alwaysPanic(h) == "panic"
PipeEventOutcome(h) == IF h = "pipe_closed" THEN "panic" ELSE "info"

\* The Manager's end of the pipe goes away.  The callback runs on the
\* socket's own thread, at any moment between dial and process end.
PeerRemoved ==
  /\ Alive
  /\ pc \notin {"Start", "Connecting"}
  /\ ~peerGone
  /\ peerGone' = TRUE
  /\ peerLog' = PipeEventOutcome(handler)
  /\ UNCHANGED mgrSilent
  /\ IF PipeEventOutcome(handler) = "panic" THEN
       /\ Goto("Panicked")
       /\ status' = << AbortStatus >>
       /\ reason' = "manager went away, exiting"
     ELSE UNCHANGED << pc, trace, status, reason >>
  /\ UNCHANGED << handler, connVars, hash, sockVars, assignVars, userVars,
                  loopVars, exitAt, pushVars, engineVars >>

\* worker.rs 106, 176, 285: manager.recv() is a blocking call and no receive
\* timeout is set on the socket (61-63), so a Manager that stops answering
\* while the Worker waits for a reply leaves the receive pending.
ManagerSilent ==
  /\ Alive
  /\ ~mgrSilent
  /\ nSend > nRecv
  /\ pc \in {"AwaitingAssignment", "GoAheadRecv"} \/ waiting # {}
  /\ mgrSilent' = TRUE
  /\ UNCHANGED << pc, trace, status, reason, handler, connVars, hash, sockVars,
                  assignVars, userVars, loopVars, exitAt, pushVars, peerGone,
                  peerLog, engineVars >>

Next ==
  \/ Setup
  \/ Dial
  \/ Register
  \/ PushRecv
  \/ AwaitAssignment
  \/ BuildUser
  \/ BuildDone
  \/ Heartbeat
  \/ GoAheadRecv
  \/ ProcessExit
  \/ StartAttack
  \/ EnginePush
  \/ EngineComplete
  \/ PeerRemoved
  \/ ManagerSilent

Spec == Init /\ [][Next]_vars

\* The go-ahead loop under fair scheduling.
\* worker_main runs on a thread the scheduler keeps running: a heartbeat that
\* can be pushed is pushed, a reply that has arrived is received, and
\* std::process::exit is reached once called for.
\* The steps of worker_main up to the end of the go-ahead loop (worker.rs
\* 52-206), with the pipe callback and the Manager's silence.
LiveNext ==
  \/ Setup
  \/ Dial
  \/ Register
  \/ AwaitAssignment
  \/ BuildUser
  \/ BuildDone
  \/ Heartbeat
  \/ GoAheadRecv
  \/ ProcessExit
  \/ PeerRemoved
  \/ ManagerSilent

LiveSpec ==
  /\ Init /\ [][LiveNext]_vars
  /\ WF_vars(Heartbeat) /\ WF_vars(GoAheadRecv) /\ WF_vars(ProcessExit)

\* ===================================================================== claims
BuildCompleted == widWrites >= 1

\* C1 (as claimed): once BuildingUsers has completed on an assignment of
\* N >= 1 initializers, the Worker holds N users, and its Worker id, run
\* duration and shared config are those of initializers[0], whatever the
\* worker_id values are (a first worker_id of 0 included).
C1_AssignmentAtomicity ==
  (BuildCompleted /\ assignedN >= 1) =>
    /\ Len(weighted_users) = assignedN
    /\ WORKER_ID = firstInit[1].worker_id
    /\ run_time = firstInit[1].run_time
    /\ config = firstInit[1].config

\* C2 (as claimed): while no Exit has been processed the handler in force
\* treats a peer-removed event as fatal; once an Exit has been processed, in
\* push or in the go-ahead loop, the handler in force treats it as
\* informational.
C2_PeerLossSeveritySwap ==
  /\ (exitAt = "none" /\ handler # "none") => PipeEventOutcome(handler) = "panic"
  /\ (exitAt \in {"push", "goahead"} /\ Alive) => PipeEventOutcome(handler) = "info"

\* C3 (as claimed): an Exit decoded at any receive ends the process with
\* status 0.
C3_ExitAtAnyListeningPoint ==
  exitAt # "none" =>
    /\ pc \in {"GoAheadExit", "Exited"}
    /\ status \in { <<>>, << 0 >> }

\* C3 (amended): an Exit decoded in the go-ahead loop leads to exit status 0
\* with no further send or receive (only the pipe callback's abort can come
\* first); decoded at the post-registration receive it is a fatal abort with
\* no further message; decoded in push it swaps the handler and makes push
\* return false, and push itself does not end the process.
C3_ExitByListeningPoint ==
  /\ exitAt = "goahead" =>
       /\ pc \in {"GoAheadExit", "Exited", "Panicked"}
       /\ pc = "Exited" => status = << 0 >>
       /\ pc = "Panicked" => reason = "manager went away, exiting"
       /\ lastCmd = "Exit" /\ hbRecvs = heartbeats
       /\ nSend = heartbeats + 1 /\ nRecv = hbRecvs + 1 /\ pushCalls = nSend
  /\ exitAt = "assignment" =>
       /\ pc = "Panicked" /\ status = << PanicStatus >>
       /\ nSend = 1 /\ nRecv = 1 /\ pushCalls = 1
  /\ exitAt = "push" =>
       \/ pc = "Panicked" /\ status # << 0 >>
       \/ /\ pc \in {"Running", "Completed"}
          /\ status = <<>>
          /\ pushRet = "false"
          /\ handler = "pipe_closed_during_shutdown"

C3_Witness == exitAt = "goahead" /\ pc = "Exited" /\ status = << 0 >>

\* The lifecycle states that follow a valid assignment.
AfterAssignment == {"BuildingUsers", "AwaitingGoAhead", "StartingAttack", "Running"}
Visited(ph) == \E i \in 1..Len(trace) : trace[i] = ph

\* C4: the post-registration message leads on only if it decodes as a
\* sequence of initializers; an Exit, any other command or an undecodable
\* message is a fatal abort with a non-zero status, reached without entering
\* BuildingUsers, AwaitingGoAhead or StartingAttack; the initializer decode
\* is tried first and the command decode only after it failed.
C4_AwaitingAssignmentOutcomes ==
  /\ assignDecoded \in {"Exit", "command", "invalid"} =>
       /\ pc = "Panicked"
       /\ status = << PanicStatus >>
       /\ \A ph \in AfterAssignment : ~Visited(ph)
  /\ (\E ph \in AfterAssignment : Visited(ph)) => assignDecoded = "initializers"
  /\ assignDecoded # "none" =>
       /\ decodeLog[1] = "initializers"
       /\ assignDecoded = "initializers" => decodeLog = << "initializers" >>
       /\ assignDecoded # "initializers" => decodeLog = << "initializers", "command" >>

C4_Witness == assignDecoded = "Exit" /\ pc = "Panicked"

\* The go-ahead loop has just matched a command that is neither Run nor Exit
\* (every command it matched before was one too, or the loop had ended).
Waiting == lastCmd \notin {"none", "Run", "Exit"}

\* C5: a command other than Run and Exit received in AwaitingGoAhead keeps
\* the Worker in AwaitingGoAhead: after a 1 second pause per such command its
\* next socket operation is another heartbeat [WorkerInit(hash)]; it has not
\* started the attack nor exited with status 0, and its users, Worker id, run
\* duration and peer-loss handler are as BuildingUsers left them.
C5_CommandCollapse ==
  Waiting =>
    /\ pc \in {"GoAheadSend", "GoAheadRecv", "Panicked"}
    /\ pc = "GoAheadSend" => hbRecvs = heartbeats
    /\ pc = "GoAheadRecv" =>
         /\ heartbeats = hbRecvs + 1
         /\ lastSent = Encode(<< WorkerInit(hash) >>)
    /\ pc # "Panicked" =>
         slept = GraceMs + RetryMs * retries + HeartbeatSleepMs * hbRecvs
    /\ attack = <<>>
    /\ status # << 0 >>
    /\ ~Visited("StartingAttack")
    /\ Len(weighted_users) = assignedN
    /\ WORKER_ID = worker_id /\ widWrites = 1
    /\ run_time = (IF firstInit = <<>> THEN 0 ELSE firstInit[1].run_time)
    /\ config = (IF firstInit = <<>> THEN DefaultConfig ELSE firstInit[1].config)
    /\ handler = "pipe_closed"

C5_Witness ==
  /\ Waiting
  /\ pc = "GoAheadRecv"
  /\ hbRecvs = 1
  /\ heartbeats = 2

\* C6: the connect loop never dials more than 6 times; it aborts only after
\* exactly 6 failed dials (1 initial + 5 retries), having slept at least
\* 100 ms + 5 * 500 ms; when the k-th dial succeeds the Worker goes on after
\* exactly k dials and never dials again.
C6_RetryBound ==
  /\ dials <= 6
  /\ reason = "failed to communicate with manager" =>
       /\ pc = "Panicked"
       /\ dials = 6
       /\ retries = 5
       /\ slept >= 100 + 5 * 500
  /\ Visited("Registering") =>
       /\ dials = retries + 1
       /\ reason # "failed to communicate with manager"
  /\ pc = "Registering" => slept = 100 + 500 * (dials - 1)

C6_Witness ==
  /\ reason = "failed to communicate with manager"
  /\ dials = 6

\* C7: when the reply to a push decodes to Exit, push returns false whatever
\* batch was sent, and from then on no push is made and nothing is sent.
C7_ExitPrecedence ==
  /\ [](exitAt = "push" /\ pc # "Panicked" =>
          /\ pushRet = "false"
          /\ canceled
          /\ ppc = "idle")
  /\ [][exitAt = "push" => pushCalls' = pushCalls /\ nSend' = nSend /\ nRecv' = nRecv]_vars

C7_Witness ==
  /\ exitAt = "push"
  /\ pushRet = "false"
  /\ pc = "Completed"
  /\ pushes < MaxPushes

\* C8: the registration message is [WorkerInit(hash)], every heartbeat of the
\* go-ahead loop is that same message, and the hash the Worker holds after
\* any number of received messages is still the one it registered with.
C8_RegistrationIdempotence ==
  /\ nSend >= 1 => regSent = Encode(<< WorkerInit(hash) >>)
  /\ hbSent \subseteq { regSent }
  /\ heartbeats > 0 /\ pc # "Panicked" => hbSent = { Encode(<< WorkerInit(hash) >>) }
  /\ \A i \in 1..Len(weighted_users) : weighted_users[i].load_test_hash = hash

C8_Witness ==
  /\ heartbeats = 2
  /\ hbRecvs = 2
  /\ hbSent = { regSent }

\* The lifecycle states in the order worker_main passes through them.
LifecycleOrder ==
  << "Connecting", "Registering", "AwaitingAssignment", "BuildingUsers",
     "AwaitingGoAhead", "StartingAttack", "Running", "Completed" >>
IsPrefix(s, t) == Len(s) <= Len(t) /\ SubSeq(t, 1, Len(s)) = s

\* C9: the lifecycle states are entered in the order Connecting, Registering,
\* AwaitingAssignment, BuildingUsers, AwaitingGoAhead, StartingAttack, none
\* skipped or repeated; exactly one message, the registration, is sent
\* before the assignment is received; BuildingUsers is over before the first
\* heartbeat; the attack starts only after the loop received Run.
C9_PhaseOrdering ==
  /\ \/ IsPrefix(trace, LifecycleOrder)
     \/ /\ trace[Len(trace)] \in {"Panicked", "Exited"}
        /\ IsPrefix(SubSeq(trace, 1, Len(trace) - 1), LifecycleOrder)
  /\ trace[Len(trace)] = Phase(pc)
  /\ pc = "AwaitingAssignment" => nSend = 1 /\ nRecv = 0
  /\ pc = "BuildingUsers" => nSend = 1 /\ nRecv = 1 /\ heartbeats = 0
  /\ assignDecoded # "none" => regSent # NoMsg
  /\ heartbeats > 0 => BuildCompleted /\ initializers = <<>>
  /\ Visited("StartingAttack") => lastCmd = "Run" /\ heartbeats >= 1
  /\ attack # <<>> => Visited("StartingAttack")

C9_Witness ==
  /\ pc = "Running"
  /\ trace = SubSeq(LifecycleOrder, 1, 7)

\* C10 (as claimed): sends and receives on the socket strictly alternate,
\* starting with a send, pushes made during the run included.
C10_StrictAlternation == nSend - nRecv \in {0, 1}

\* C10 (amended): the Worker never receives without a pending send; until
\* the Attack Engine pushes, sends and receives strictly alternate starting
\* with a send; during the run only pushes that ask for no reply leave sends
\* unanswered, at most one per push.
C10_RequestReplyDiscipline ==
  /\ nRecv <= nSend
  /\ pushes = 0 => nSend - nRecv \in {0, 1}
  /\ pushes > 0 => nSend - nRecv <= pushes
  /\ nSend <= pushCalls

C10_Witness ==
  /\ pushes = 2
  /\ nSend - nRecv = 2
  /\ pc = "Running"

\* C12 (as claimed): every go-ahead poll is a push that asks for the reply,
\* so the loop itself never receives: the command is received and decoded
\* inside push, and an Exit answered to a heartbeat leaves the informational
\* pipe handler in force when the process exits with status 0.
C12_HeartbeatAsksForReply ==
  /\ hbRecvs = 0
  /\ Phase(pc) = "AwaitingGoAhead" /\ nSend > nRecv => ppc = "recv"
  /\ exitAt = "goahead" /\ pc = "Exited" => handler = "pipe_closed_during_shutdown"

\* C13: once the go-ahead loop has received Run the Worker is in the running
\* phase for good: it is never again in a state before StartingAttack, the
\* loop sends no further heartbeat and receives nothing further, and the
\* user population, Worker id and run duration stay as BuildingUsers left
\* them.
C13_RunIsIrrevocable ==
  lastCmd = "Run" =>
    /\ pc \in {"StartingAttack", "Running", "Completed", "Panicked"}
    /\ Visited("StartingAttack")
    /\ trace[Len(trace)] \in {"StartingAttack", "Running", "Completed", "Panicked"}
    /\ heartbeats = hbRecvs
    /\ pushCalls = 1 + heartbeats + pushes
    /\ Cardinality(hbSent) = 1
    /\ Len(weighted_users) = assignedN
    /\ WORKER_ID = worker_id /\ widWrites = 1
    /\ run_time = (IF firstInit = <<>> THEN 0 ELSE firstInit[1].run_time)
    /\ attack # <<>> =>
         /\ attack[1].weighted_users = weighted_users
         /\ attack[1].run_time = run_time

C13_Witness ==
  /\ lastCmd = "Run"
  /\ pc = "Completed"
  /\ pushes = MaxPushes
  /\ assignedN = 2

\* C14 (as claimed): the process-wide Worker id is stored exactly once, when
\* BuildingUsers ends, with the worker_id of the first received initializer;
\* it holds its default 0 before, and is never stored again.
C14_WriteOnceWorkerId ==
  /\ widWrites <= 1
  /\ widWrites = 0 => WORKER_ID = 0 /\ Phase(pc) \notin {"AwaitingGoAhead", "StartingAttack", "Running"}
  /\ widWrites = 1 => Visited("AwaitingGoAhead")
  /\ (widWrites = 1 /\ firstInit # <<>>) => WORKER_ID = firstInit[1].worker_id

\* C16: the configuration handed to the Attack Engine has the log paths and
\* formats and throttle_requests of the Worker's own configuration, every
\* other field from the shared config the Worker kept (the first
\* initializer's, when there is one), worker = true, manager = false, attack
\* mode Worker, and the run duration the Manager sent.
C16_AttackConfigurationMerge ==
  attack # <<>> =>
    LET c == attack[1].configuration
        shared == IF firstInit = <<>> THEN DefaultConfig ELSE firstInit[1].config
    IN  /\ c.request_log = LocalConfig.request_log
        /\ c.request_format = LocalConfig.request_format
        /\ c.task_log = LocalConfig.task_log
        /\ c.task_format = LocalConfig.task_format
        /\ c.error_log = LocalConfig.error_log
        /\ c.error_format = LocalConfig.error_format
        /\ c.debug_log = LocalConfig.debug_log
        /\ c.debug_format = LocalConfig.debug_format
        /\ c.throttle_requests = LocalConfig.throttle_requests
        /\ c.users = shared.users
        /\ c.host = shared.host
        /\ c.worker = TRUE
        /\ c.manager = FALSE
        /\ attack[1].attack_mode = "Worker"
        /\ attack[1].run_time = (IF firstInit = <<>> THEN 0 ELSE firstInit[1].run_time)

C16_Witness ==
  /\ attack # <<>>
  /\ assignedN = 2
  /\ attack[1].configuration.host = "mgrB"
  /\ attack[1].run_time = 60

\* C15: when the go-ahead loop has left for StartingAttack, the last command
\* it received is Run, every command before it was neither Run nor Exit and
\* cost one sleep and one more heartbeat, so after k such commands the loop
\* has made exactly k + 1 heartbeat sends and k + 1 receives; user count,
\* run duration and Worker id are the ones the assignment fixed.
C15_GoAheadRoundTrips ==
  Visited("StartingAttack") =>
    LET k == hbRecvs - 1 IN
    /\ lastCmd = "Run"
    /\ k >= 0
    /\ heartbeats = k + 1
    /\ hbRecvs = k + 1
    /\ slept = GraceMs + RetryMs * retries + HeartbeatSleepMs * k
    /\ nSend >= 1 + (k + 1)
    /\ nRecv >= 1 + (k + 1)
    /\ Len(weighted_users) = assignedN
    /\ widWrites = 1
    /\ firstInit # <<>> =>
         /\ run_time = firstInit[1].run_time
         /\ firstInit[1].worker_id # 0 => WORKER_ID = firstInit[1].worker_id

C15_Witness ==
  /\ pc = "StartingAttack"
  /\ hbRecvs = 3
  /\ slept = GraceMs + 2 * HeartbeatSleepMs
  /\ WORKER_ID = 7
  /\ run_time = 60
  /\ Len(weighted_users) = 2

\* C19: a post-registration message that decodes as a sequence of zero
\* initializers is accepted by the first decode; BuildingUsers ends with no
\* user, Worker id 0, run duration 0 and the default configuration, the
\* Worker enters AwaitingGoAhead (only a lost peer can abort it before), and
\* on Run the Attack Engine is handed an empty user population.
C19_EmptyAssignmentAccepted ==
  assignedN = 0 =>
    /\ assignDecoded = "initializers"
    /\ decodeLog = << "initializers" >>
    /\ Visited("BuildingUsers")
    /\ weighted_users = <<>>
    /\ worker_id = 0 /\ WORKER_ID = 0
    /\ run_time = 0
    /\ config = DefaultConfig
    /\ (pc = "Panicked" /\ ~Visited("AwaitingGoAhead")) =>
         reason = "manager went away, exiting"
    /\ widWrites = (IF Visited("AwaitingGoAhead") THEN 1 ELSE 0)
    /\ lastCmd = "Run" => Visited("StartingAttack")
    /\ attack # <<>> =>
         /\ attack[1].weighted_users = <<>>
         /\ attack[1].run_time = 0
         /\ attack[1].configuration = MergeConfiguration(DefaultConfig, LocalConfig)

C19_Witness ==
  /\ assignedN = 0
  /\ pc = "Running"
  /\ attack # <<>>
  /\ attack[1].weighted_users = <<>>
  /\ WORKER_ID = 0

\* The diagnostics of a failed send, receive or decode after the dial.
SessionFailures ==
  { "communication failure", "error receiving manager message",
    "invalid message", "invalid message received", "unknown command from manager",
    "unexpected SwanlingUserCommand::Exit from manager during startup" }

\* C18: once a dial has succeeded no further dial is made (the dials stay one
\* more than the failed ones), and a failed send, receive or decode ends the
\* process at once with a non-zero status: at most one push ever fails to
\* send, and it is the last thing the Worker did; only the connect loop
\* retries.
C18_NoRecovery ==
  /\ Visited("Registering") => dials = retries + 1
  /\ retries > 0 => slept >= RetryMs * retries
  /\ reason \in SessionFailures =>
       /\ pc = "Panicked"
       /\ status = << PanicStatus >>
       /\ Visited("Registering")
       /\ trace[Len(trace)] = "Panicked"
  /\ pushCalls - nSend \in {0, 1}
  /\ pushCalls > nSend => pc = "Panicked" /\ reason = "communication failure"
  /\ reason = "communication failure" => pushCalls = nSend + 1
  /\ reason = "error receiving manager message" => nRecv <= nSend + 1

C18_Witness ==
  /\ reason = "error receiving manager message"
  /\ pc = "Panicked"
  /\ hbRecvs = 2
  /\ retries = 1

\* C11: pushes are mutually exclusive: at most one caller is between its
\* send and its return, the request sent last is that caller's own (no other
\* push has sent in between), and every reply is consumed by the push whose
\* request it answers.
C11_SerializedPushes ==
  /\ Cardinality(waiting) <= 1
  /\ \A caller \in waiting : lastReq = << caller >>
  /\ ~misdelivered
  /\ (ppc = "recv") = (waiting # {})

C11_Witness ==
  /\ pc = "Running"
  /\ Len(weighted_users) = 2
  /\ waiting = { << 2 >> }
  /\ pushes = MaxPushes
  /\ nRecv = nSend - 1

\* C17: a push that wants no reply makes one send and no receive, returns
\* true and leaves the pipe handler alone; a push that wants a reply makes
\* one send, then one receive with no send in between, and for every reply
\* command other than Exit returns true with the pipe handler unchanged.
C17_PushFrame ==
  /\ [][ pushCalls' = pushCalls + 1 =>
           /\ nRecv' = nRecv
           /\ handler' = handler
           /\ nSend' \in {nSend, nSend + 1}
           /\ nSend' = nSend => pc' = "Panicked"
           /\ (nSend' = nSend + 1 /\ waiting' = waiting) =>
                pushRet' = "true" /\ pc' # "Panicked" ]_vars
  /\ [][ waiting # {} =>
           /\ nSend' = nSend
           /\ pushCalls' = pushCalls
           /\ nRecv' \in {nRecv, nRecv + 1}
           /\ nRecv' = nRecv => (peerGone' # peerGone \/ mgrSilent' # mgrSilent) ]_vars
  /\ [][ (waiting # {} /\ waiting' = {}) =>
           /\ nRecv' = nRecv + 1
           /\ pushRet' \in {"true", "false"}
           /\ pushRet' = "false" => exitAt' = "push"
           /\ pushRet' = "true" => handler' = handler /\ exitAt' = exitAt ]_vars

C17_Witness ==
  /\ pc = "Running"
  /\ pushes = MaxPushes
  /\ waiting = {}
  /\ pushCalls = nRecv + 1
  /\ pushRet = "true"
  /\ exitAt = "none"
  /\ handler = "pipe_closed"

\* The go-ahead loop is over: the attack is being started or the process ended.
LeftGoAhead == pc \in {"StartingAttack", "Running", "Completed", "Exited", "Panicked"}

\* The loop has made every heartbeat the model allows and was told to wait each time.
HeartbeatsSpent == pc = "GoAheadSend" /\ heartbeats = MaxHeartbeats

\* C20: with worker_main scheduled fairly, a Worker in AwaitingGoAhead whose
\* heartbeats are answered leaves the loop once an answer is Run or Exit:
\* from any state of the loop it gets out, unless the Manager has stopped
\* answering or has answered every heartbeat taken so far with a command to
\* wait; Run is followed by StartingAttack and Exit by exit status 0 (or by
\* the abort of a lost peer).  Once the Manager is silent at the loop's
\* receive the Worker stays there for ever: nothing but a lost peer moves it.
C20_GoAheadLiveness ==
  /\ (Phase(pc) = "AwaitingGoAhead") ~> (LeftGoAhead \/ mgrSilent \/ HeartbeatsSpent)
  /\ (lastCmd = "Exit") ~> ((pc = "Exited" /\ status = << 0 >>) \/ pc = "Panicked")
  /\ [](lastCmd = "Run" => Visited("StartingAttack"))
  /\ []((mgrSilent /\ pc = "GoAheadRecv") =>
          [](pc = "GoAheadRecv" \/ reason = "manager went away, exiting"))

C20_Witness ==
  /\ mgrSilent
  /\ pc = "GoAheadRecv"
  /\ hbRecvs = 1
  /\ lastCmd = "Wait"
====
